---------------------------- MODULE Spec2Model ----------------------------
(***************************************************************************)
(* A model of jcaw/noise_recorder, src/recorder.py.                        *)
(*                                                                         *)
(* Recorder (the Session Registry) keeps _recording_threads under _lock.   *)
(* record() starts one _RecordingSession thread per enumerated input       *)
(* device, stop() flags and joins every one of them and clears the list.   *)
(* Each _RecordingSession thread resolves its directory, generates a file  *)
(* name with tempfile.mktemp, creates the file exclusively, opens the      *)
(* input stream and then copies chunks from its queue into the file until  *)
(* its _exit flag is seen.  The audio subsystem calls callback() for every *)
(* delivered block while the stream is open.                               *)
(***************************************************************************)
EXTENDS Integers, Sequences, FiniteSets, TLC

(***************************************************************************)
(* Bounds of the model.                                                    *)
(***************************************************************************)
\* Device indices the host API lists: 1..MaxDevices.
MaxDevices == 2

\* Sessions (threads) ever constructed in one run of the model.
MaxSessions == 2

\* Blocks the audio subsystem delivers to one session.
MaxChunks == 3

\* Blocks delivered to one session when a whole batch is modelled (Spec).
BatchChunks == 1

\* Uniqueness tokens tempfile.mktemp can draw.
MaxTokens == 2

(***************************************************************************)
(* Program constants.                                                      *)
(***************************************************************************)
\* len(mic_directory) > 40
DirLimit == 40

\* The host threads that call the Recorder.  Spec has one (the __main__
\* thread).
Host == 1
AllCallers == {1, 2}

Labels == {"test_noise"}

NoOwner == 0
NoFile == <<>>

VARIABLES
    sessions,           \* every _RecordingSession constructed so far
    recording_threads,  \* Recorder._recording_threads: session ids
    lock,               \* Recorder._lock: the caller holding it, or NoOwner
    callers,            \* where each host thread is inside the Recorder
    fs,                 \* the recordings directory: path -> chunks written
    destroyed,          \* Recorder.__del__ has run
    hist                \* history: the last Start/Stop event and its size

vars == <<sessions, recording_threads, lock, callers, fs, destroyed, hist>>

Sessions == 1..Len(sessions)

(***************************************************************************)
(* Device names and the directory run() derives from them.                 *)
(***************************************************************************)
Alnum == {"M", "B", "1"}

\* device["name"] of sd.query_devices(index, "input")
DeviceName(d) ==
    CASE d = 1 -> <<"M", "#", "#", "1">>
      [] d = 2 -> <<"M", "_", "1">>
      [] OTHER -> <<"B">>

\* re.sub("[^a-zA-Z0-9]+", "_", name): every maximal run of characters that
\* are not alphanumeric becomes one "_".
RECURSIVE ReSub(_)
ReSub(name) ==
    IF name = <<>> THEN <<>>
    ELSE IF Head(name) \in Alnum THEN <<Head(name)>> \o ReSub(Tail(name))
    ELSE IF Len(name) > 1 /\ name[2] \notin Alnum THEN ReSub(Tail(name))
    ELSE <<"_">> \o ReSub(Tail(name))

MicDirectory(d) ==
    LET m == ReSub(DeviceName(d))
    IN  IF Len(m) > DirLimit THEN SubSeq(m, 1, DirLimit) ELSE m

Tokens == 1..MaxTokens

Path(dir, label, token) == [dir |-> dir, label |-> label, token |-> token]

\* tempfile.mktemp: the names of the directory that do not exist right now.
\* The file is not created.
Mktemp(dir, label) ==
    {Path(dir, label, t) : t \in {u \in Tokens : Path(dir, label, u) \notin DOMAIN fs}}

(***************************************************************************)
(* _RecordingSession                                                       *)
(***************************************************************************)
\* __init__
NewSession(label, d) ==
    [noise_name   |-> label,
     device_index |-> d,
     exit         |-> FALSE,
     chunk_queue  |-> <<>>,
     pc           |-> "init",
     file_name    |-> NoFile,
     fileOpen     |-> FALSE,
     streamOpen   |-> FALSE,
     raised       |-> "none",
     delivered    |-> 0,
     statusLogged |-> 0,
     deliveredAtStop |-> 0]

\* The blocks delivered to session s so far, in delivery order.
Chunk(s, k) == <<s, k>>
Delivered(s) == [k \in 1..sessions[s].delivered |-> Chunk(s, k)]

Terminated == {"finished", "reported", "crashed"}

\* (variant: the session is appended but never started)
ThreadNotStarted(session) == session

\* Thread.start(): run() begins in a thread of its own.
ThreadStart(session) == [session EXCEPT !.pc = "run"]

\* (variant: stop() flips the flag)
SessionStopToggles(ss, s) == [ss EXCEPT ![s].exit = ~@]

\* (variant: stop() does not set the flag)
SessionStopForgets(ss, s) == ss

\* _RecordingSession.stop
SessionStop(ss, s) ==
    [ss EXCEPT ![s].exit = TRUE,
               ![s].deliveredAtStop =
                    IF ss[s].exit THEN @ ELSE ss[s].delivered]

\* run(), lines 53-66: resolve the device, make the directory, generate the
\* file name.  None of this is inside the try block: a failure here ends the
\* thread with an uncaught exception.
Establish(s) ==
    /\ sessions[s].pc = "run"
    /\ \E p \in Mktemp(MicDirectory(sessions[s].device_index),
                       sessions[s].noise_name) :
          sessions' = [sessions EXCEPT ![s].pc = "create", ![s].file_name = p]
    /\ UNCHANGED <<recording_threads, lock, callers, fs, destroyed, hist>>

EstablishFails(s) ==
    /\ sessions[s].pc = "run"
    /\ \E e \in {"PortAudioError", "OSError"} \cup
                (IF Mktemp(MicDirectory(sessions[s].device_index),
                           sessions[s].noise_name) = {}
                 THEN {"FileExistsError"} ELSE {}) :
          sessions' = [sessions EXCEPT ![s].pc = "crashed", ![s].raised = e]
    /\ UNCHANGED <<recording_threads, lock, callers, fs, destroyed, hist>>

\* (variant: a failing session takes the whole batch down with it)
RaiseStopsAll(ss, s, e) ==
    [t \in DOMAIN ss |->
        IF t = s
        THEN [ss[t] EXCEPT !.raised = e,
                           !.pc = IF ss[s].streamOpen THEN "close_stream"
                                  ELSE IF ss[s].fileOpen THEN "close_file"
                                  ELSE "reported"]
        ELSE [ss[t] EXCEPT !.exit = TRUE]]

\* (variant: the exception goes straight to the except clause, the with
\* blocks close nothing)
RaiseLeaksResources(ss, s, e) ==
    [ss EXCEPT ![s].raised = e, ![s].pc = "reported"]

\* An exception raised inside the try block: the with blocks are left
\* innermost first, then the except clause reports it.
Raise(ss, s, e) ==
    [ss EXCEPT ![s].raised = e,
               ![s].pc = IF ss[s].streamOpen THEN "close_stream"
                         ELSE IF ss[s].fileOpen THEN "close_file"
                         ELSE "reported"]

\* (variant: mode="w", an existing file is opened again)
CanOverwrite(p) == TRUE

\* sf.SoundFile(file_name, mode="x"): exclusive creation.
CanCreate(p) == p \notin DOMAIN fs

CreateFile(s) ==
    /\ sessions[s].pc = "create"
    /\ CanCreate(sessions[s].file_name)
    /\ fs' = (sessions[s].file_name :> <<>>) @@ fs
    /\ sessions' = [sessions EXCEPT ![s].pc = "open", ![s].fileOpen = TRUE]
    /\ UNCHANGED <<recording_threads, lock, callers, destroyed, hist>>

CreateFileFails(s) ==
    /\ sessions[s].pc = "create"
    /\ \E e \in (IF CanCreate(sessions[s].file_name)
                 THEN {"OSError"} ELSE {"FileExistsError"}) :
          sessions' = Raise(sessions, s, e)
    /\ UNCHANGED <<recording_threads, lock, callers, fs, destroyed, hist>>

\* sd.InputStream(...).__enter__
OpenStream(s) ==
    /\ sessions[s].pc = "open"
    /\ sessions' = [sessions EXCEPT ![s].pc = "loop", ![s].streamOpen = TRUE]
    /\ UNCHANGED <<recording_threads, lock, callers, fs, destroyed, hist>>

OpenStreamFails(s) ==
    /\ sessions[s].pc = "open"
    /\ sessions' = Raise(sessions, s, "PortAudioError")
    /\ UNCHANGED <<recording_threads, lock, callers, fs, destroyed, hist>>

\* (variant: the loop goes on until the queue is empty)
LoopDrains(ss, s) == ~ss[s].exit \/ ss[s].chunk_queue # <<>>

\* while not self._exit
LoopContinues(ss, s) == ~ss[s].exit

LoopTest(s) ==
    /\ sessions[s].pc = "loop"
    /\ sessions' = [sessions EXCEPT ![s].pc =
                        IF LoopContinues(sessions, s) THEN "get"
                        ELSE "close_stream"]
    /\ UNCHANGED <<recording_threads, lock, callers, fs, destroyed, hist>>

\* (variant: the newest chunk is written first)
DequeueNewest(q) == q[Len(q)]

\* file.write(self._chunk_queue.get(timeout=3)) with a chunk in the queue
Dequeue(q) == Head(q)

GetWrite(s) ==
    /\ sessions[s].pc = "get"
    /\ sessions[s].chunk_queue # <<>>
    /\ fs' = [fs EXCEPT ![sessions[s].file_name] =
                 Append(@, Dequeue(sessions[s].chunk_queue))]
    /\ sessions' = [sessions EXCEPT ![s].pc = "loop",
                                    ![s].chunk_queue = Tail(@)]
    /\ UNCHANGED <<recording_threads, lock, callers, destroyed, hist>>

\* ... the chunk is taken from the queue and file.write raises
GetWriteFails(s) ==
    /\ sessions[s].pc = "get"
    /\ sessions[s].chunk_queue # <<>>
    /\ sessions' = Raise([sessions EXCEPT ![s].chunk_queue = Tail(@)],
                         s, "RuntimeError")
    /\ UNCHANGED <<recording_threads, lock, callers, fs, destroyed, hist>>

\* (variant: get() without a timeout waits for a chunk for ever)
GetBlocksForever(s) == FALSE

\* Queue.get(timeout=3) on a queue that stays empty raises queue.Empty.
GetTimeoutRaises == "Empty"

\* except TimeoutError: pass
InnerHandlerCatches(e) == e = "TimeoutError"

GetTimeout(s) ==
    /\ sessions[s].pc = "get"
    /\ sessions[s].chunk_queue = <<>>
    /\ sessions' = IF InnerHandlerCatches(GetTimeoutRaises)
                   THEN [sessions EXCEPT ![s].pc = "loop"]
                   ELSE Raise(sessions, s, GetTimeoutRaises)
    /\ UNCHANGED <<recording_threads, lock, callers, fs, destroyed, hist>>

\* Leaving `with sd.InputStream(...)`.
CloseStream(s) ==
    /\ sessions[s].pc = "close_stream"
    /\ sessions' = [sessions EXCEPT ![s].streamOpen = FALSE,
                                    ![s].pc = "close_file"]
    /\ UNCHANGED <<recording_threads, lock, callers, fs, destroyed, hist>>

\* Leaving `with sf.SoundFile(...)`, then line 85-86 or line 87.
CloseFile(s) ==
    /\ sessions[s].pc = "close_file"
    /\ sessions' = [sessions EXCEPT
            ![s].fileOpen = FALSE,
            ![s].pc = IF sessions[s].raised = "none" THEN "finished"
                      ELSE "reported"]
    /\ UNCHANGED <<recording_threads, lock, callers, fs, destroyed, hist>>

Statuses == {0, 1}

\* (variant: a status is fatal, the callback asks the session to stop)
CallbackStatusFatal(s, status, limit) ==
    /\ sessions[s].streamOpen
    /\ sessions[s].delivered < limit
    /\ sessions' = [sessions EXCEPT
            ![s].statusLogged = IF status # 0 THEN @ + 1 ELSE @,
            ![s].exit = IF status # 0 THEN TRUE ELSE @,
            ![s].delivered = @ + 1,
            ![s].chunk_queue = Append(@, Chunk(s, sessions[s].delivered + 1))]
    /\ UNCHANGED <<recording_threads, lock, callers, fs, destroyed, hist>>

\* callback(indata, frames, time, status), called by the audio subsystem
\* while the stream is open.
Callback(s, status, limit) ==
    /\ sessions[s].streamOpen
    /\ sessions[s].delivered < limit
    /\ sessions' = [sessions EXCEPT
            ![s].statusLogged = IF status # 0 THEN @ + 1 ELSE @,
            ![s].delivered = @ + 1,
            ![s].chunk_queue = Append(@, Chunk(s, sessions[s].delivered + 1))]
    /\ UNCHANGED <<recording_threads, lock, callers, fs, destroyed, hist>>

(***************************************************************************)
(* input_devices()                                                         *)
(***************************************************************************)
RECURSIVE Ascending(_)
Ascending(S) ==
    IF S = {} THEN <<>>
    ELSE LET m == CHOOSE x \in S : \A y \in S : x <= y
         IN  <<m>> \o Ascending(S \ {m})

\* The indices of the default host API, in its order, without those that
\* are not input devices.
InputDevices ==
    {Ascending(S) : S \in SUBSET (1..MaxDevices)}

(***************************************************************************)
(* Recorder                                                                *)
(***************************************************************************)
\* (variant: the methods do not take the lock)
LockIgnored == TRUE

\* with self._lock: a caller enters when no other caller holds the lock.
LockFree == lock = NoOwner

\* ret is what the caller's last call gave: "None" (record and stop return
\* nothing), "RuntimeError" (record raised), "True" or "False" (recording).
Idle == [pc |-> "idle", i |-> 0, devs |-> <<>>, label |-> "", ret |-> "None"]

\* (variant: record() without the check)
RecordNeverRejects == FALSE

\* record(), lines 125-129: the list is not empty
RecordRejects == recording_threads # <<>>

RecordRaises(c, label) ==
    /\ ~destroyed
    /\ callers[c].pc = "idle"
    /\ LockFree
    /\ RecordRejects
    /\ callers' = [callers EXCEPT ![c] = [Idle EXCEPT !.ret = "RuntimeError"]]
    /\ UNCHANGED <<sessions, recording_threads, lock, fs, destroyed, hist>>

\* record(), line 130: the devices are enumerated
RecordBegin(c, label, devs) ==
    /\ ~destroyed
    /\ callers[c].pc = "idle"
    /\ LockFree
    /\ ~RecordRejects
    /\ Len(sessions) + Len(devs) <= MaxSessions
    /\ lock' = c
    /\ callers' = [callers EXCEPT ![c] =
            [pc |-> "record", i |-> 0, devs |-> devs, label |-> label,
             ret |-> "None"]]
    /\ UNCHANGED <<sessions, recording_threads, fs, destroyed, hist>>

\* record(), lines 131-133, for one device
RecordDevice(c) ==
    /\ callers[c].pc = "record"
    /\ callers[c].i < Len(callers[c].devs)
    /\ sessions' = Append(sessions, ThreadStart(
            NewSession(callers[c].label, callers[c].devs[callers[c].i + 1])))
    /\ recording_threads' = Append(recording_threads, Len(sessions) + 1)
    /\ callers' = [callers EXCEPT ![c].i = @ + 1]
    /\ UNCHANGED <<lock, fs, destroyed, hist>>

\* record() returns
RecordReturn(c) ==
    /\ callers[c].pc = "record"
    /\ callers[c].i = Len(callers[c].devs)
    /\ lock' = NoOwner
    /\ callers' = [callers EXCEPT ![c] = Idle]
    /\ hist' = [last |-> "started", devs |-> callers[c].devs]
    /\ UNCHANGED <<sessions, recording_threads, fs, destroyed>>

\* recording(): bool(self._recording_threads)
Bool(list) == IF list # <<>> THEN "True" ELSE "False"

Recording(c) ==
    /\ ~destroyed
    /\ callers[c].pc = "idle"
    /\ LockFree
    /\ callers' = [callers EXCEPT ![c] =
            [Idle EXCEPT !.ret = Bool(recording_threads)]]
    /\ UNCHANGED <<sessions, recording_threads, lock, fs, destroyed, hist>>

\* stop(), line 142
StopBegin(c) ==
    /\ ~destroyed
    /\ callers[c].pc = "idle"
    /\ LockFree
    /\ lock' = c
    /\ callers' = [callers EXCEPT ![c] = [Idle EXCEPT !.pc =
            IF recording_threads = <<>> THEN "stop_join" ELSE "stop_flag"]]
    /\ hist' = [last |-> "stopped", devs |-> <<>>]
    /\ UNCHANGED <<sessions, recording_threads, fs, destroyed>>

\* stop(), lines 143-144, for one session
StopFlag(c) ==
    /\ callers[c].pc = "stop_flag"
    /\ callers[c].i < Len(recording_threads)
    /\ sessions' = SessionStop(sessions, recording_threads[callers[c].i + 1])
    /\ callers' = [callers EXCEPT ![c] =
            IF callers[c].i + 1 = Len(recording_threads)
            THEN [@ EXCEPT !.pc = "stop_join", !.i = 0]
            ELSE [@ EXCEPT !.i = callers[c].i + 1]]
    /\ UNCHANGED <<recording_threads, lock, fs, destroyed, hist>>

\* (variant: join() without a timeout)
JoinWithoutTimeout(s, timedOut) == sessions[s].pc \in Terminated

\* session.join(timeout=1) returns when the thread has ended or when the
\* timeout has elapsed.
JoinReturns(s, timedOut) == sessions[s].pc \in Terminated \/ timedOut

\* stop(), lines 145-146, for one session: join(timeout=1) returns when the
\* thread has ended, or after the timeout with the thread still running.
StopJoin(c) ==
    /\ callers[c].pc = "stop_join"
    /\ callers[c].i < Len(recording_threads)
    /\ \E timedOut \in BOOLEAN :
            JoinReturns(recording_threads[callers[c].i + 1], timedOut)
    /\ callers' = [callers EXCEPT ![c].i = @ + 1]
    /\ UNCHANGED <<sessions, recording_threads, lock, fs, destroyed, hist>>

\* (variant: the list is left as it is)
NotCleared(threads) == threads

\* (variant: only the sessions that have ended are dropped)
ClearedOnlyEnded(threads) ==
    SelectSeq(threads, LAMBDA s : sessions[s].pc \notin Terminated)

\* stop(), line 147 and the release of the lock
Cleared(threads) == <<>>

StopClear(c) ==
    /\ callers[c].pc = "stop_join"
    /\ callers[c].i = Len(recording_threads)
    /\ recording_threads' = Cleared(recording_threads)
    /\ lock' = NoOwner
    /\ callers' = [callers EXCEPT ![c] = Idle]
    /\ UNCHANGED <<sessions, fs, destroyed, hist>>

\* __del__: try: self._stop() except: pass
RecorderAttributes ==
    {"_recording_threads", "_lock", "record", "recording", "stop", "__del__"}

DelCalls == "_stop"

Del ==
    /\ ~destroyed
    /\ lock = NoOwner
    /\ \A c \in AllCallers : callers[c].pc = "idle"
    /\ destroyed' = TRUE
    /\ IF DelCalls \in RecorderAttributes
       THEN /\ sessions' = [s \in Sessions |->
                    IF \E k \in 1..Len(recording_threads) : recording_threads[k] = s
                    THEN SessionStop(sessions, s)[s] ELSE sessions[s]]
            /\ recording_threads' = Cleared(recording_threads)
       ELSE UNCHANGED <<sessions, recording_threads>>
    /\ UNCHANGED <<lock, callers, fs, hist>>

(***************************************************************************)
(* The specification: one host thread, the session threads, the audio      *)
(* subsystem.                                                              *)
(***************************************************************************)
Init ==
    /\ sessions = <<>>
    /\ recording_threads = <<>>
    /\ lock = NoOwner
    /\ callers = [c \in AllCallers |-> Idle]
    /\ fs = <<>>
    /\ destroyed = FALSE
    /\ hist = [last |-> "init", devs |-> <<>>]

CallerStep(c) ==
    \/ \E label \in Labels : RecordRaises(c, label)
    \/ \E label \in Labels, devs \in InputDevices : RecordBegin(c, label, devs)
    \/ RecordDevice(c)
    \/ RecordReturn(c)
    \/ Recording(c)
    \/ StopBegin(c)
    \/ StopFlag(c)
    \/ StopJoin(c)
    \/ StopClear(c)

Next ==
    \/ CallerStep(Host)
    \/ Del
    \/ \E s \in Sessions : Establish(s)
    \/ \E s \in Sessions : EstablishFails(s)
    \/ \E s \in Sessions : CreateFile(s)
    \/ \E s \in Sessions : CreateFileFails(s)
    \/ \E s \in Sessions : OpenStream(s)
    \/ \E s \in Sessions : OpenStreamFails(s)
    \/ \E s \in Sessions : LoopTest(s)
    \/ \E s \in Sessions : GetWrite(s)
    \/ \E s \in Sessions : GetWriteFails(s)
    \/ \E s \in Sessions : GetTimeout(s)
    \/ \E s \in Sessions : CloseStream(s)
    \/ \E s \in Sessions : CloseFile(s)
    \/ \E s \in Sessions : Callback(s, 0, BatchChunks)

Spec == Init /\ [][Next]_vars

\* The host thread keeps running: a step of it that stays possible is
\* eventually taken.  Nothing is assumed of the session threads or of the
\* audio subsystem.
HostRuns ==
    \/ RecordDevice(Host)
    \/ RecordReturn(Host)
    \/ StopFlag(Host)
    \/ StopJoin(Host)
    \/ StopClear(Host)

SpecHostFair == Spec /\ WF_vars(HostRuns)

(***************************************************************************)
(* The first recording of a process, on one input device: a single         *)
(* pipeline with more audio and with both kinds of callback status.        *)
(***************************************************************************)
FirstRecord(c, label, d) ==
    /\ sessions = <<>>
    /\ RecordBegin(c, label, <<d>>)

NextPipe ==
    \/ \E label \in Labels, d \in 1..MaxDevices : FirstRecord(Host, label, d)
    \/ \E label \in Labels : RecordRaises(Host, label)
    \/ RecordDevice(Host)
    \/ RecordReturn(Host)
    \/ Recording(Host)
    \/ StopBegin(Host)
    \/ StopFlag(Host)
    \/ StopJoin(Host)
    \/ StopClear(Host)
    \/ \E s \in Sessions : Establish(s)
    \/ \E s \in Sessions : EstablishFails(s)
    \/ \E s \in Sessions : CreateFile(s)
    \/ \E s \in Sessions : CreateFileFails(s)
    \/ \E s \in Sessions : OpenStream(s)
    \/ \E s \in Sessions : OpenStreamFails(s)
    \/ \E s \in Sessions : LoopTest(s)
    \/ \E s \in Sessions : GetWrite(s)
    \/ \E s \in Sessions : GetWriteFails(s)
    \/ \E s \in Sessions : GetTimeout(s)
    \/ \E s \in Sessions : CloseStream(s)
    \/ \E s \in Sessions : CloseFile(s)
    \/ \E s \in Sessions, status \in Statuses : Callback(s, status, MaxChunks)

SpecPipe == Init /\ [][NextPipe]_vars

(***************************************************************************)
(* Two host threads calling the Recorder concurrently, the session threads *)
(* and the audio subsystem.                                                *)
(***************************************************************************)
NextConc ==
    \/ \E c \in AllCallers : CallerStep(c)
    \/ \E s \in Sessions : Establish(s)
    \/ \E s \in Sessions : EstablishFails(s)
    \/ \E s \in Sessions : CreateFile(s)
    \/ \E s \in Sessions : CreateFileFails(s)
    \/ \E s \in Sessions : OpenStream(s)
    \/ \E s \in Sessions : OpenStreamFails(s)
    \/ \E s \in Sessions : LoopTest(s)
    \/ \E s \in Sessions : GetWrite(s)
    \/ \E s \in Sessions : GetWriteFails(s)
    \/ \E s \in Sessions : GetTimeout(s)
    \/ \E s \in Sessions : CloseStream(s)
    \/ \E s \in Sessions : CloseFile(s)
    \/ \E s \in Sessions : Callback(s, 0, BatchChunks)

SpecConc == Init /\ [][NextConc]_vars

\* A session thread that has been started keeps running: while it has a
\* step to take it eventually takes one.  Nothing is assumed of the audio
\* subsystem: it may deliver blocks or stay silent.
SessionRuns(s) ==
    /\ s \in Sessions
    /\ \/ Establish(s)
       \/ EstablishFails(s)
       \/ CreateFile(s)
       \/ CreateFileFails(s)
       \/ OpenStream(s)
       \/ OpenStreamFails(s)
       \/ LoopTest(s)
       \/ GetWrite(s)
       \/ GetWriteFails(s)
       \/ GetTimeout(s)
       \/ CloseStream(s)
       \/ CloseFile(s)

SpecPipeFair == SpecPipe /\ \A s \in 1..MaxSessions : WF_vars(SessionRuns(s))

(***************************************************************************)
(* Properties.                                                             *)
(***************************************************************************)
IsPrefix(a, b) == Len(a) <= Len(b) /\ a = SubSeq(b, 1, Len(a))

Active == {recording_threads[k] : k \in 1..Len(recording_threads)}

RecordCalled(c) ==
    \E label \in Labels :
        \/ RecordRaises(c, label)
        \/ \E devs \in InputDevices : RecordBegin(c, label, devs)

\* C1: a call of record() while _recording_threads is not empty raises the
\* "Already recording" RuntimeError, holds no lock afterwards, enumerates no
\* device, and leaves the list and every session exactly as they were.
C1_RecordWhileRecordingRaises ==
    [][\A c \in AllCallers :
        (RecordCalled(c) /\ recording_threads # <<>>) =>
            /\ callers'[c].ret = "RuntimeError"
            /\ callers'[c].pc = "idle"
            /\ callers'[c].devs = <<>>
            /\ lock' = NoOwner
            /\ recording_threads' = recording_threads
            /\ sessions' = sessions]_vars

C1_Witness ==
    /\ callers[Host].ret = "RuntimeError"
    /\ Len(recording_threads) = 2

\* C2 as stated: with no call in progress, recording() is true iff the last
\* record()/stop() event is a record() that returned.
C2_Original ==
    /\ lock = NoOwner => (Bool(recording_threads) = "True" <=> hist.last = "started")
    /\ callers[Host].ret \in {"True", "False"} =>
            (callers[Host].ret = "True" <=> hist.last = "started")

\* C2 amended: with no call in progress, recording() is true iff the last
\* record()/stop() event is a record() that returned after enumerating at
\* least one device.
C2_RecordingIffStartedSome ==
    /\ lock = NoOwner =>
            (Bool(recording_threads) = "True" <=>
                (hist.last = "started" /\ hist.devs # <<>>))
    /\ callers[Host].ret \in {"True", "False"} =>
            (callers[Host].ret = "True" <=>
                (hist.last = "started" /\ hist.devs # <<>>))

C2_Witness ==
    /\ callers[Host].ret = "True"
    /\ hist.last = "started"

\* C3: once stop() has released the lock the list is empty, whatever the
\* sessions did, and recording() answers False until the next record().
C3_StopEmptiesTheList ==
    (hist.last = "stopped" /\ lock = NoOwner) =>
        /\ recording_threads = <<>>
        /\ callers[Host].ret # "True"

\* stop() has returned with one session ended and one still running.
C3_Witness ==
    /\ hist.last = "stopped"
    /\ lock = NoOwner
    /\ callers[Host].ret = "False"
    /\ \E s, t \in Sessions :
        /\ sessions[s].exit /\ sessions[s].pc \notin Terminated
        /\ sessions[t].exit /\ sessions[t].pc \in Terminated

\* C4: while record() walks the enumerated devices the list holds exactly
\* the sessions of the devices handled so far, in enumeration order, every
\* one of them started; when it has returned the list holds one session per
\* enumerated device (none, and recording() False, for no device).
DevicesOf(threads) == [k \in 1..Len(threads) |-> sessions[threads[k]].device_index]

C4_OneStartedSessionPerDevice ==
    /\ \A c \in AllCallers : callers[c].pc = "record" =>
            /\ Len(recording_threads) = callers[c].i
            /\ DevicesOf(recording_threads) =
                    SubSeq(callers[c].devs, 1, callers[c].i)
    /\ \A s \in Active : sessions[s].pc # "init"
    /\ (hist.last = "started" /\ lock = NoOwner) =>
            /\ DevicesOf(recording_threads) = hist.devs
            /\ (hist.devs = <<>> => callers[Host].ret # "True")

C4_Witness ==
    /\ hist.last = "started"
    /\ lock = NoOwner
    /\ hist.devs = <<1, 2>>
    /\ Len(recording_threads) = 2

\* C5: a step in which a session fails changes no other session and not the
\* list, and gives no caller anything; record() raises only when the list is
\* not empty.
Fails(s) ==
    /\ s \in DOMAIN sessions'
    /\ sessions[s].raised = "none"
    /\ sessions'[s].raised # "none"

C5_FailureIsContained ==
    [][/\ \A s \in Sessions : Fails(s) =>
            /\ \A t \in Sessions \ {s} : sessions'[t] = sessions[t]
            /\ sessions'[s].exit = sessions[s].exit
            /\ recording_threads' = recording_threads
            /\ callers' = callers
       /\ \A c \in AllCallers :
            (callers'[c] # callers[c] /\ callers'[c].ret = "RuntimeError") =>
                recording_threads # <<>>]_vars

\* One session of the batch has failed, the other is still recording.
C5_Witness ==
    \E s, t \in Active :
        /\ sessions[s].raised = "RuntimeError"
        /\ sessions[t].pc = "get" /\ ~sessions[t].exit
        /\ sessions[t].raised = "none"

\* C6: every file holds a prefix of the blocks delivered to the session
\* that named it, and while a session records without error its file
\* followed by its queue is exactly what was delivered to it.
C6_FileIsPrefixOfDelivered ==
    /\ \A p \in DOMAIN fs : fs[p] # <<>> =>
            LET s == fs[p][1][1]
            IN  /\ sessions[s].file_name = p
                /\ IsPrefix(fs[p], Delivered(s))
    /\ \A s \in Sessions :
            (sessions[s].fileOpen /\ sessions[s].raised = "none") =>
                fs[sessions[s].file_name] \o sessions[s].chunk_queue
                    = Delivered(s)

C6_Witness ==
    \E s \in Sessions :
        /\ sessions[s].pc = "loop"
        /\ Len(fs[sessions[s].file_name]) = 2
        /\ sessions[s].chunk_queue # <<>>

\* C7 as stated: a session that ends cleanly has written every block that
\* was delivered before its stop() was called.
C7_Original ==
    \A s \in Sessions : sessions[s].pc = "finished" =>
        Len(fs[sessions[s].file_name]) >= sessions[s].deliveredAtStop

\* C7 amended: the loop test that finds _exit set leaves the loop at once,
\* whatever the queue holds, taking nothing from the queue and writing
\* nothing.
C7_ExitLeavesLoopAtNextTest ==
    [][\A s \in Sessions :
        (/\ sessions[s].pc = "loop"
         /\ sessions[s].exit
         /\ sessions'[s].pc # "loop") =>
            /\ sessions'[s].pc = "close_stream"
            /\ sessions'[s].chunk_queue = sessions[s].chunk_queue
            /\ fs' = fs]_vars

\* A session has ended cleanly with a block still in its queue that was
\* delivered before stop() was called.
C7_Witness ==
    \E s \in Sessions :
        /\ sessions[s].pc = "finished"
        /\ sessions[s].chunk_queue # <<>>
        /\ Len(fs[sessions[s].file_name]) < sessions[s].deliveredAtStop

\* C8 as stated: when get() times out on an empty queue and _exit is not
\* set, the session goes back to the loop test with its file and stream
\* open and nothing raised.
C8_TimeoutKeepsRecording ==
    [][\A s \in Sessions :
        (/\ sessions[s].pc = "get"
         /\ sessions[s].chunk_queue = <<>>
         /\ ~sessions[s].exit
         /\ sessions'[s].pc # "get") =>
            /\ sessions'[s].pc = "loop"
            /\ sessions'[s].fileOpen
            /\ sessions'[s].streamOpen
            /\ sessions'[s].raised = "none"]_vars

\* C9 as stated: __del__ with sessions in the list flags every one of them
\* and clears the list.
C9_DelStops ==
    [][(destroyed' /\ ~destroyed /\ recording_threads # <<>>) =>
            /\ recording_threads' = <<>>
            /\ \A s \in Active : sessions'[s].exit]_vars

\* C10: no two sessions have the same path open at the same time.
C10_NoSharedOpenFile ==
    \A s, t \in Sessions :
        (s # t /\ sessions[s].fileOpen /\ sessions[t].fileOpen) =>
            sessions[s].file_name # sessions[t].file_name

\* Two sessions of one batch generated the same name; one created the file,
\* the other was refused.
C10_Witness ==
    \E s, t \in Active :
        /\ s # t
        /\ sessions[s].file_name = sessions[t].file_name
        /\ sessions[s].fileOpen
        /\ sessions[t].raised = "FileExistsError"

\* C11: with two threads calling concurrently, a caller that is inside
\* record() or stop() holds the lock and is the only one inside; the list
\* changes only by the lock holder appending the session it has just made
\* to the sessions of its own call, or by the lock holder clearing it; and
\* recording() answers only while no record() or stop() is in progress.
Inside == {c \in AllCallers : callers[c].pc # "idle"}

C11_ListOnlyUnderTheLock ==
    [][/\ \A c \in Inside : lock = c
       /\ (lock = NoOwner) <=> (Inside = {})
       /\ recording_threads' # recording_threads =>
            /\ lock # NoOwner
            /\ lock' \in {lock, NoOwner}
            /\ \/ /\ callers[lock].pc = "stop_join"
                  /\ recording_threads' = <<>>
               \/ /\ callers[lock].pc = "record"
                  /\ Len(recording_threads) = callers[lock].i
                  /\ recording_threads' =
                        Append(recording_threads, Len(sessions) + 1)
       /\ \A c \in AllCallers :
            (callers'[c] # callers[c] /\ callers'[c].ret \in {"True", "False"}) =>
                /\ Inside = {}
                /\ callers'[c].ret = Bool(recording_threads)]_vars

\* Two record() calls from idle: one populated the list and returned, the
\* other raised.
C11_Witness ==
    /\ callers[1].ret = "None"
    /\ callers[2].ret = "RuntimeError"
    /\ hist.last = "started"
    /\ Len(recording_threads) = 2
    /\ lock = NoOwner

\* C12 as stated: the list is non-empty iff a session is still running: a
\* non-empty list holds a session that has not ended, and no session is
\* still running while the list is empty.
Running(s) == sessions[s].pc \notin Terminated

C12_Original ==
    /\ recording_threads # <<>> => \E s \in Active : Running(s)
    /\ recording_threads = <<>> => \A s \in Sessions : ~Running(s)

\* C12 amended: with no call in progress a non-empty list means that a
\* record() has returned and no stop() was called since, whether or not its
\* sessions are still running; and while the list is empty the only
\* sessions still running are ones whose stop flag is set.
C12_ListTracksBatchNotSessions ==
    /\ (recording_threads # <<>> /\ lock = NoOwner) => hist.last = "started"
    /\ recording_threads = <<>> =>
            \A s \in Sessions : Running(s) => sessions[s].exit

\* Every session of the list has ended and the list is still non-empty.
C12_Witness ==
    /\ lock = NoOwner
    /\ Len(recording_threads) = 2
    /\ \A s \in Active : ~Running(s)

\* C13: a stop() that has been entered returns: the host thread gets back
\* to idle with the lock released, whatever the sessions do.
InStop(c) == callers[c].pc \in {"stop_flag", "stop_join"}

C13_StopReturns ==
    InStop(Host) ~> (callers[Host].pc = "idle" /\ lock = NoOwner)

\* stop() has returned and a session it dropped still has its file and its
\* stream open.
C13_Witness ==
    /\ hist.last = "stopped"
    /\ lock = NoOwner
    /\ recording_threads = <<>>
    /\ \E s \in Sessions : sessions[s].fileOpen /\ sessions[s].streamOpen

\* C14: _RecordingSession.stop() applied to any session in any reachable
\* state changes only that session's flag (and the record of when it was
\* first set), applied a second time it changes nothing more, and a stop()
\* of the Recorder that is about to flag a session can always do so.
OnlyFlagChanged(before, after, s) ==
    /\ after[s].exit
    /\ [after[s] EXCEPT !.exit = before[s].exit,
                        !.deliveredAtStop = before[s].deliveredAtStop]
            = before[s]
    /\ \A t \in DOMAIN before \ {s} : after[t] = before[t]
    /\ DOMAIN after = DOMAIN before

C14_StopIsIdempotentFlag ==
    /\ \A s \in Sessions :
        LET once  == SessionStop(sessions, s)
            twice == SessionStop(once, s)
        IN  /\ OnlyFlagChanged(sessions, once, s)
            /\ twice = once
    /\ \A c \in AllCallers : callers[c].pc = "stop_flag" => ENABLED StopFlag(c)

\* A flagged session with its queue, its file and its stream as they were.
C14_Witness ==
    \E s \in Sessions :
        /\ sessions[s].exit
        /\ sessions[s].chunk_queue # <<>>
        /\ sessions[s].fileOpen
        /\ sessions[s].streamOpen
        /\ sessions[s].pc = "get"

\* C15: a session whose stop flag is set ends, whether blocks keep arriving
\* or none ever does, provided its thread keeps running.
C15_FlaggedSessionEnds ==
    \A s \in 1..MaxSessions :
        (s \in Sessions /\ sessions[s].exit) ~>
            (s \in Sessions /\ sessions[s].pc \in Terminated)

\* A session was flagged while waiting on an empty queue, no block came,
\* and it has ended.
C15_Witness ==
    \E s \in Sessions :
        /\ sessions[s].exit
        /\ sessions[s].pc \in Terminated
        /\ sessions[s].delivered = sessions[s].deliveredAtStop
        /\ sessions[s].chunk_queue = <<>>
        /\ sessions[s].raised = GetTimeoutRaises

\* C16: a session whose generated name exists when it tries to create the
\* file is refused in that step, which leaves every file as it is; such a
\* session never has a file or a stream open, is delivered nothing, has
\* nothing queued and has written to no file.
Collides(s) ==
    /\ sessions[s].pc = "create"
    /\ sessions[s].file_name \in DOMAIN fs

Refused(s) ==
    /\ sessions[s].raised = "FileExistsError"
    /\ sessions[s].pc # "crashed"

WroteNothing(s) ==
    \A p \in DOMAIN fs : \A k \in 1..Len(fs[p]) : fs[p][k][1] # s

C16_CollisionAbortsUntouched ==
    [][\A s \in Sessions :
        /\ (Collides(s) /\ sessions'[s].pc # "create") =>
                /\ fs' = fs
                /\ sessions'[s].pc = "reported"
                /\ sessions'[s].raised = "FileExistsError"
        /\ Refused(s) =>
                /\ sessions[s].pc = "reported"
                /\ ~sessions[s].fileOpen
                /\ ~sessions[s].streamOpen
                /\ sessions[s].delivered = 0
                /\ sessions[s].chunk_queue = <<>>
                /\ WroteNothing(s)
                /\ sessions'[s].pc = "reported"]_vars

\* A session was refused a name whose file already held a block of the
\* session that created it.
C16_Witness ==
    \E s, t \in Sessions :
        /\ Refused(s)
        /\ sessions[t].file_name = sessions[s].file_name
        /\ fs[sessions[s].file_name] = <<Chunk(t, 1)>>


(***************************************************************************)
(* C17: a callback with a non-zero status is not fatal.  The step that     *)
(* logs a status enqueues the copy of its buffer exactly as a callback     *)
(* with status zero does, leaves the stop flag, the position of the        *)
(* session thread, the open file and stream and the file system as they    *)
(* were, and writes nothing itself; and while the stream is open the       *)
(* callback can always run, whatever the length of the queue.              *)
(***************************************************************************)
StatusLogged(s) ==
    sessions'[s].statusLogged = sessions[s].statusLogged + 1

C17_StatusIsNotFatal ==
    [][\A s \in Sessions :
        /\ StatusLogged(s) =>
                /\ sessions'[s] = [sessions[s] EXCEPT
                        !.statusLogged = @ + 1,
                        !.delivered = @ + 1,
                        !.chunk_queue =
                            Append(@, Chunk(s, sessions[s].delivered + 1))]
                /\ sessions'[s].exit = sessions[s].exit
                /\ sessions'[s].pc = sessions[s].pc
                /\ fs' = fs
        /\ (sessions[s].streamOpen /\ sessions[s].delivered < MaxChunks) =>
                /\ ENABLED Callback(s, 1, MaxChunks)
                /\ ENABLED Callback(s, 0, MaxChunks)]_vars

\* Every callback of the session came with a status, and every buffer was
\* written to the file before the session finished.
C17_Witness ==
    \E s \in Sessions :
        /\ sessions[s].statusLogged = 2
        /\ sessions[s].delivered = 2
        /\ sessions[s].pc = "finished"
        /\ fs[sessions[s].file_name] = <<Chunk(s, 1), Chunk(s, 2)>>

(***************************************************************************)
(* C18: whichever step of run() fails (resolving the device, making the    *)
(* directory, generating the file name, creating the file, opening the     *)
(* stream, dequeuing or writing a buffer), the session ends in the         *)
(* reported abort: the except clause has reported the file path and the    *)
(* cause, and no file or stream is left open.                              *)
(***************************************************************************)
C18_EveryFailureIsReported ==
    \A s \in Sessions :
        (sessions[s].raised # "none" /\ sessions[s].pc \in Terminated) =>
            /\ sessions[s].pc = "reported"
            /\ sessions[s].file_name # NoFile
            /\ ~sessions[s].fileOpen
            /\ ~sessions[s].streamOpen

(***************************************************************************)
(* C19: in every state of a session its stream is open only while its      *)
(* file is open (the stream is opened after the file and closed before     *)
(* it), and once the session has terminated, cleanly or by failure, both   *)
(* its file and its stream are closed.                                     *)
(***************************************************************************)
C19_StreamInsideFile ==
    \A s \in Sessions :
        /\ sessions[s].streamOpen => sessions[s].fileOpen
        /\ sessions[s].pc \in Terminated =>
                (~sessions[s].fileOpen /\ ~sessions[s].streamOpen)

\* One session ended cleanly and another by a failure in the loop, each
\* after its stream had delivered; both have closed everything.
C19_Witness ==
    \E s, t \in Sessions :
        /\ sessions[s].pc = "finished" /\ sessions[s].delivered > 0
        /\ sessions[t].pc = "reported" /\ sessions[t].delivered > 0
        /\ ~sessions[s].fileOpen /\ ~sessions[s].streamOpen
        /\ ~sessions[t].fileOpen /\ ~sessions[t].streamOpen

(***************************************************************************)
(* C20: every session that has been started and is no longer in            *)
(* _recording_threads has its stop flag set.  Sessions leave the list only *)
(* through stop(), which flags every one of them before it clears the      *)
(* list, so a session dropped after a join timeout is never left running   *)
(* without a stop request; it can still be running when the next record()  *)
(* starts a new session for the same device.                               *)
(***************************************************************************)
Dropped == Sessions \ Active

C20_DroppedSessionsAreFlagged ==
    /\ [](\A s \in Dropped : sessions[s].exit)
    /\ [][\A s \in Sessions :
            (s \in Active /\ s \notin Active') =>
                /\ \E c \in AllCallers : /\ callers[c].pc = "stop_join"
                                         /\ callers'[c].pc = "idle"
                /\ \A t \in Active : sessions[t].exit]_vars

\* A dropped session, flagged but still running, and a new session in the
\* list recording the same device.
C20_Witness ==
    \E s \in Dropped, t \in Active :
        /\ sessions[s].exit
        /\ sessions[s].pc \notin Terminated
        /\ sessions[s].streamOpen
        /\ sessions[t].device_index = sessions[s].device_index
        /\ sessions[t].streamOpen
        /\ ~sessions[t].exit
=============================================================================
